---- MODULE Spec2Model ----
(***************************************************************************)
(* depmanager: package-manager detection, workspace detection and the      *)
(* security-audit walk (src/src/depmanager.ts, src/src/cli.ts).            *)
(*                                                                         *)
(* JavaScript strings are sequences of one-character strings, so that      *)
(* split, trim, parseInt and replace are computed as the runtime computes  *)
(* them.  A thrown exception is a result record with threw = TRUE.         *)
(***************************************************************************)
EXTENDS Integers, Sequences, FiniteSets, TLC

VARIABLES
    version,    \* argument of the classifier call under study
    yvt,        \* its result: "pending" before the call
    fs,         \* the file system: tree nodes, manifests, lock files
    wsOut,      \* outcome of the getWorkspaceInfo call under study
    pc,         \* where the command-line process stands
    cmd,        \* the subcommand it runs
    probe,      \* detectPackageManager: hasYarnLock, hasPackageLock
    pm,         \* the PackageManagerInfo detected
    wsInfo,     \* runSecurityAudit: workspaceInfo
    walk,       \* runSecurityAudit: position of the two loops
    curDir,     \* runSecurityAuditForDirectory: directory
    phase,      \* which call of the audit functions is awaited
    trace,      \* what the process did: commands, visits, console lines
    exitCode,   \* -1 while running, then the exit status
    requireCache,   \* depmanager.js: the module cache of require()
    tsOut,      \* the last call of the core module, as depmanager.ts answers
    jsOut,      \* the same call, as depmanager.js answers
    wsPattern,  \* the workspace pattern whose base path is studied
    basePath,   \* pattern.replace('/*', '') of that pattern, once called
    yarnOut,    \* what a yarn audit printed: stdout, stderr, the count it states
    shown       \* what displayYarnAuditResults wrote to the console, once called

yvtVars == <<version, yvt>>
wsVars == <<wsOut>>
cliVars == <<pc, cmd, probe, pm, wsInfo, walk, curDir, phase, trace, exitCode>>
eqVars == <<requireCache, tsOut, jsOut>>
bpVars == <<wsPattern, basePath>>
ydVars == <<yarnOut, shown>>
vars == <<version, yvt, fs, wsOut, pc, cmd, probe, pm, wsInfo, walk, curDir, phase,
          trace, exitCode, requireCache, tsOut, jsOut, wsPattern, basePath,
          yarnOut, shown>>

---------------------------------------------------------------------------
(* Bounds *)

MaxVerLen == 3
MaxPatterns == 2
MaxNohoist == 1
MaxPatLen == 5
MaxVulnCount == 21

---------------------------------------------------------------------------
(* Strings *)

Digits == {"0", "1", "2", "3"}
WhiteSpace == {" ", "\n"}
VersionChars == Digits \cup {".", "-", "x", "v", " "}

DigitVal(c) == CASE c = "0" -> 0 [] c = "1" -> 1 [] c = "2" -> 2 [] c = "3" -> 3

StringsUpTo(alphabet, n) == UNION {[1..k -> alphabet] : k \in 0..n}

\* s.split('.')[0]: the text before the first '.', the whole text without one
RECURSIVE SplitFirst(_)
SplitFirst(s) ==
    IF s = <<>> \/ Head(s) = "." THEN <<>>
    ELSE <<Head(s)>> \o SplitFirst(Tail(s))

RECURSIVE TrimStart(_)
TrimStart(s) ==
    IF s # <<>> /\ Head(s) \in WhiteSpace THEN TrimStart(Tail(s)) ELSE s

RECURSIVE TrimEnd(_)
TrimEnd(s) ==
    IF s # <<>> /\ s[Len(s)] \in WhiteSpace
    THEN TrimEnd(SubSeq(s, 1, Len(s) - 1)) ELSE s

\* String.prototype.trim
Trim(s) == TrimEnd(TrimStart(s))

\* the value of the longest prefix of decimal digits, acc the value so far
RECURSIVE DigitRun(_, _, _)
DigitRun(s, acc, seen) ==
    IF s # <<>> /\ Head(s) \in Digits
    THEN DigitRun(Tail(s), 10 * acc + DigitVal(Head(s)), TRUE)
    ELSE [nan |-> ~seen, n |-> acc]

\* parseInt(s, 10): leading white space skipped, an optional sign, then the
\* longest run of decimal digits; NaN when there is no digit
ParseInt10(s) ==
    LET t == TrimStart(s)
        neg == t # <<>> /\ Head(t) = "-"
        body == IF t # <<>> /\ Head(t) \in {"-", "+"} THEN Tail(t) ELSE t
        r == DigitRun(body, 0, FALSE)
    IN  [nan |-> r.nan, n |-> IF neg THEN 0 - r.n ELSE r.n]

HexLetters == {"a", "b", "c", "d", "e", "f"}

HexVal(c) ==
    CASE c \in Digits -> DigitVal(c)
      [] c = "a" -> 10 [] c = "b" -> 11 [] c = "c" -> 12
      [] c = "d" -> 13 [] c = "e" -> 14 [] c = "f" -> 15

\* the value of the longest prefix of hexadecimal digits
RECURSIVE HexRun(_, _, _)
HexRun(s, acc, seen) ==
    IF s # <<>> /\ Head(s) \in Digits \cup HexLetters
    THEN HexRun(Tail(s), 16 * acc + HexVal(Head(s)), TRUE)
    ELSE [nan |-> ~seen, n |-> acc]

\* parseInt(s) without a radix: as parseInt(s, 10), but a body that starts
\* with '0x' is read as hexadecimal digits after that prefix
ParseIntAuto(s) ==
    LET t == TrimStart(s)
        neg == t # <<>> /\ Head(t) = "-"
        body == IF t # <<>> /\ Head(t) \in {"-", "+"} THEN Tail(t) ELSE t
        hex == Len(body) >= 2 /\ body[1] = "0" /\ body[2] = "x"
        r == IF hex THEN HexRun(Tail(Tail(body)), 0, FALSE)
             ELSE DigitRun(body, 0, FALSE)
    IN  [nan |-> r.nan, n |-> IF neg THEN 0 - r.n ELSE r.n]

---------------------------------------------------------------------------
(* Nullable strings: string | null | undefined *)

JsNull == [kind |-> "null", s |-> <<>>]
JsUndefined == [kind |-> "undefined", s |-> <<>>]
JsString(s) == [kind |-> "string", s |-> s]

\* !v for a nullable string: null, undefined and '' are falsy
Falsy(v) == v.kind # "string" \/ v.s = <<>>

---------------------------------------------------------------------------
(* depmanager.ts: getYarnVersionType *)

getYarnVersionType(v) ==
    IF Falsy(v) THEN "null"
    ELSE LET majorVersion == ParseInt10(SplitFirst(v.s))
         IN  IF ~majorVersion.nan /\ majorVersion.n >= 2 THEN "yarn2+" ELSE "yarn1"

\* depmanager.js lines 18-22: parseInt without a radix
getYarnVersionTypeJs(v) ==
    IF Falsy(v) THEN "null"
    ELSE LET majorVersion == ParseIntAuto(SplitFirst(v.s))
         IN  IF ~majorVersion.nan /\ majorVersion.n >= 2 THEN "yarn2+" ELSE "yarn1"

---------------------------------------------------------------------------
(* JSON values, as far as the code inspects them.  t is the JavaScript    *)
(* type, text the characters of a string or number, items the elements of  *)
(* an array.  A workspaces value also carries its packages and nohoist     *)
(* properties (undefined on anything but a record that has them).          *)

JUndef == [t |-> "undefined", text |-> <<>>, items |-> <<>>]
JNull == [t |-> "null", text |-> <<>>, items |-> <<>>]
JFalse == [t |-> "false", text |-> <<>>, items |-> <<>>]
JTrue == [t |-> "true", text |-> <<>>, items |-> <<>>]
JNum(digits) == [t |-> "num", text |-> digits, items |-> <<>>]
JStr(s) == [t |-> "str", text |-> s, items |-> <<>>]
JArr(elems) == [t |-> "arr", text |-> <<>>, items |-> elems]
JObj == [t |-> "obj", text |-> <<>>, items |-> <<>>]

\* ToBoolean: undefined, null, false, 0 and '' are falsy
Truthy(v) ==
    CASE v.t \in {"undefined", "null", "false"} -> FALSE
      [] v.t = "num" -> ParseInt10(v.text).n # 0
      [] v.t = "str" -> v.text # <<>>
      [] OTHER -> TRUE

IsArray(v) == v.t = "arr"

\* a workspaces value: the value itself with its two properties
WsValue(v, packages, nohoist) ==
    [t |-> v.t, text |-> v.text, items |-> v.items,
     packages |-> packages, nohoist |-> nohoist]

\* the value without the properties
Bare(w) == [t |-> w.t, text |-> w.text, items |-> w.items]

---------------------------------------------------------------------------
(* The file system.  Names of tree entries are one character long, so a    *)
(* workspace pattern "p/*" is <<"p", "/", "*">> and a path is the sequence  *)
(* of its components below "/".                                            *)

Cwd == <<"proj">>
DirP == Cwd \o <<"p">>
DirA == DirP \o <<"a">>
DirB == DirP \o <<"b">>
DirC == DirP \o <<"c">>
DirS == DirA \o <<"s">>

\* the entries below the root whose kind the layout decides
TreePaths == {DirP, DirA, DirB, DirC, DirS}
\* the directories that can hold a manifest and lock files
DirPaths == {Cwd} \cup TreePaths

\* a manifest file: absent, present but unreadable, present with text that
\* does not parse, or present with a parsed document.  doc is the type of
\* the document: a record, null, or anything else (number, string, array)
ManifestFile(state, doc, workspaces) ==
    [state |-> state, doc |-> doc, workspaces |-> workspaces]

NoWs == WsValue(JUndef, JUndef, JUndef)
AbsentManifest == ManifestFile("absent", "obj", NoWs)
UnreadableManifest == ManifestFile("unreadable", "obj", NoWs)
MalformedManifest == ManifestFile("malformed", "obj", NoWs)
NullManifest == ManifestFile("ok", "null", NoWs)
ScalarManifest == ManifestFile("ok", "other", NoWs)
PlainManifest == ManifestFile("ok", "obj", NoWs)
WsManifest(w) == ManifestFile("ok", "obj", w)

\* fs.existsSync(path.join(dir, 'package.json'))
HasManifest(f, dir) == dir \in DirPaths /\ f.manifest[dir].state # "absent"
\* fs.existsSync(path.join(dir, 'yarn.lock')); a lock file is "none" or
\* the kind of its content
HasYarnLock(f, dir) == dir \in DirPaths /\ f.yarnLock[dir] # "none"
\* fs.existsSync(path.join(dir, 'package-lock.json'))
HasPackageLock(f, dir) == dir \in DirPaths /\ f.packageLock[dir] # "none"

\* the kind of the node at a path: "dir", "file", "dangling" (a symbolic
\* link to nothing) or "none"; "/" and the working directory are directories
NodeKind(f, path) ==
    IF path = <<>> \/ path = Cwd THEN "dir"
    ELSE IF path \in TreePaths THEN f.node[path]
    ELSE "none"

\* fs.existsSync(path): links are followed, so a dangling link does not exist
ExistsSync(f, path) == NodeKind(f, path) \in {"dir", "file"}

\* the names a directory can hold, in the order the file system lists them
ChildOrder(path) ==
    IF path = <<>> THEN <<"proj">>
    ELSE IF path = Cwd THEN <<"p">>
    ELSE IF path = DirP THEN <<"a", "b", "c">>
    ELSE IF path = DirA THEN <<"s">>
    ELSE <<>>

RECURSIVE Reverse(_)
Reverse(q) == IF q = <<>> THEN <<>> ELSE Reverse(Tail(q)) \o <<Head(q)>>

\* a defect: only the first entry is listed
ListingFirstOnly(f, path) ==
    LET order == IF f.reversed THEN Reverse(ChildOrder(path)) ELSE ChildOrder(path)
        all == SelectSeq(order, LAMBDA n : NodeKind(f, path \o <<n>>) # "none")
    IN  IF all = <<>> THEN <<>> ELSE <<Head(all)>>

\* fs.readdirSync(path) of a directory: the names of its entries
Listing(f, path) ==
    LET order == IF f.reversed THEN Reverse(ChildOrder(path)) ELSE ChildOrder(path)
    IN  SelectSeq(order, LAMBDA n : NodeKind(f, path \o <<n>>) # "none")

\* the first position at which pat occurs in s, 0 when it does not
RECURSIVE IndexOfFrom(_, _, _)
IndexOfFrom(s, pat, i) ==
    IF i + Len(pat) - 1 > Len(s) THEN 0
    ELSE IF SubSeq(s, i, i + Len(pat) - 1) = pat THEN i
    ELSE IndexOfFrom(s, pat, i + 1)

\* s.replace(pat, rep) with a string pattern: the first occurrence only
Replace(s, pat, rep) ==
    LET i == IndexOfFrom(s, pat, 1)
    IN  IF i = 0 THEN s
        ELSE SubSeq(s, 1, i - 1) \o rep \o SubSeq(s, i + Len(pat), Len(s))

\* the components of a relative path: the text between the '/' characters
RECURSIVE Components(_, _)
Components(s, cur) ==
    IF s = <<>> THEN <<cur>>
    ELSE IF Head(s) = "/" THEN <<cur>> \o Components(Tail(s), "")
    ELSE Components(Tail(s), cur \o Head(s))

\* path.join(base, rel): '' and '.' components are dropped, '..' goes up
RECURSIVE Normalize(_, _)
Normalize(base, comps) ==
    IF comps = <<>> THEN base
    ELSE LET c == Head(comps)
         IN  IF c = "" \/ c = "." THEN Normalize(base, Tail(comps))
             ELSE IF c = ".."
                  THEN Normalize(IF base = <<>> THEN <<>>
                                 ELSE SubSeq(base, 1, Len(base) - 1), Tail(comps))
                  ELSE Normalize(base \o <<c>>, Tail(comps))

\* a defect: the directory above the one named is taken
PathJoinParent(base, rel) ==
    LET comps == Components(rel, "")
    IN  IF comps = <<>> THEN base
        ELSE Normalize(base, SubSeq(comps, 1, Len(comps) - 1))

PathJoin(base, rel) == Normalize(base, Components(rel, ""))

---------------------------------------------------------------------------
(* depmanager.ts: getWorkspaceInfo *)

Return(v) == [threw |-> FALSE, value |-> v]
Throw(e) == [threw |-> TRUE, value |-> e]

WorkspaceInfo(has, packages) == [hasWorkspaces |-> has, packages |-> packages]
NoWorkspaces == WorkspaceInfo(FALSE, JArr(<<>>))

\* a defect: only the patterns with a wildcard are kept
FromArrayWildcardsOnly(workspaces) ==
    WorkspaceInfo(TRUE, JArr(SelectSeq(workspaces.items,
        LAMBDA e : \E i \in 1..Len(e.text) : e.text[i] = "*")))

\* line 61: the sequence itself
FromArray(workspaces) == WorkspaceInfo(TRUE, Bare(workspaces))

\* a defect: the nohoist entries are appended to the packages
FromRecordWithNohoist(workspaces) ==
    WorkspaceInfo(TRUE, JArr(workspaces.packages.items \o workspaces.nohoist.items))

\* line 63: the packages property itself
FromRecord(workspaces) == WorkspaceInfo(TRUE, workspaces.packages)

\* the body of the try block, lines 51-66
getWorkspaceInfoTry(f, projectDir) ==
    IF ~HasManifest(f, projectDir) THEN Return(NoWorkspaces)
    ELSE LET m == f.manifest[projectDir]
         IN  IF m.state = "unreadable" THEN Throw("readFileSync")
             ELSE IF m.state = "malformed" THEN Throw("SyntaxError")
             ELSE IF m.doc = "null" THEN Throw("TypeError")
             ELSE LET workspaces == IF m.doc = "obj" THEN m.workspaces ELSE NoWs
                  IN  IF Truthy(workspaces)
                      THEN IF IsArray(workspaces)
                           THEN Return(FromArray(workspaces))
                           ELSE IF Truthy(workspaces.packages)
                                THEN Return(FromRecord(workspaces))
                                ELSE Return(NoWorkspaces)
                      ELSE Return(NoWorkspaces)

\* a defect: no catch clause, the exception propagates
getWorkspaceInfoNoCatch(f, projectDir) == getWorkspaceInfoTry(f, projectDir)

\* the try block with its catch, lines 50-69
getWorkspaceInfo(f, projectDir) ==
    LET r == getWorkspaceInfoTry(f, projectDir)
    IN  IF r.threw THEN Return(NoWorkspaces) ELSE r

---------------------------------------------------------------------------
(* depmanager.ts: getYarnVersion, detectPackageManager, checkProjectValidity *)

\* what an external command returned: ok is a zero exit status
Outcome(ok, stdout) == [ok |-> ok, stdout |-> stdout]

\* a defect: no catch clause, a failing 'yarn --version' propagates
getYarnVersionNoCatch(outcome) ==
    IF outcome.ok THEN Return(JsString(Trim(outcome.stdout))) ELSE Throw("exec")

\* lines 28-35, applied to the outcome of 'yarn --version'
getYarnVersion(outcome) ==
    IF outcome.ok THEN Return(JsString(Trim(outcome.stdout))) ELSE Return(JsNull)

\* lines 76-77
Probe(f, projectDir) ==
    [hasYarnLock |-> HasYarnLock(f, projectDir),
     hasPackageLock |-> HasPackageLock(f, projectDir)]

S_yarn == <<"y", "a", "r", "n", " ">>
S_2plus == <<" ", "(", "2", "+", ")">>
S_1x == <<" ", "(", "1", ".", "x", ")">>
S_npm == <<"n", "p", "m">>
S_default == <<" ", "(", "d", "e", "f", "a", "u", "l", "t", ")">>

\* `${v}` in a template literal
TemplateText(v) ==
    CASE v.kind = "null" -> <<"n", "u", "l", "l">>
      [] v.kind = "undefined" -> <<"u", "n", "d", "e", "f", "i", "n", "e", "d">>
      [] OTHER -> v.s

PackageManagerInfo(manager, ver, type, displayName) ==
    [manager |-> manager, version |-> ver, type |-> type, displayName |-> displayName]

\* lines 81-87
YarnInfo(yarnVersion) ==
    LET yarnType == getYarnVersionType(yarnVersion)
    IN  PackageManagerInfo("yarn", yarnVersion, yarnType,
            IF yarnType = "yarn2+"
            THEN S_yarn \o TemplateText(yarnVersion) \o S_2plus
            ELSE S_yarn \o TemplateText(yarnVersion) \o S_1x)

\* a defect: a project with both lock files is taken for an npm project
UsesYarnUnlessNpm(p) == p.hasYarnLock /\ ~p.hasPackageLock

\* line 79
UsesYarn(p) == p.hasYarnLock

\* lines 90-95
NpmInfo(p) ==
    IF p.hasPackageLock
    THEN PackageManagerInfo("npm", JsNull, "npm", S_npm)
    ELSE PackageManagerInfo("npm", JsNull, "npm", S_npm \o S_default)

\* the document a manifest file parses to
Document(m) == [doc |-> m.doc, workspaces |-> m.workspaces]

\* a defect: a directory without a manifest is taken for an empty project
checkProjectValidityLenient(f, projectDir) ==
    IF ~HasManifest(f, projectDir) THEN Return(Document(PlainManifest))
    ELSE IF f.manifest[projectDir].state \in {"unreadable", "malformed"}
         THEN Throw("Error reading package.json")
         ELSE Return(Document(f.manifest[projectDir]))

\* lines 101-115: the parsed document, or an error
checkProjectValidity(f, projectDir) ==
    IF ~HasManifest(f, projectDir) THEN Throw("No package.json found")
    ELSE IF f.manifest[projectDir].state \in {"unreadable", "malformed"}
         THEN Throw("Error reading package.json")
         ELSE Return(Document(f.manifest[projectDir]))

\* depmanager.js lines 71-84: require() answers from its cache when the
\* path was loaded before, and loads (and caches) the file otherwise
NoCache == [loaded |-> FALSE, document |-> Document(PlainManifest)]
Cached(d) == [loaded |-> TRUE, document |-> d]

checkProjectValidityJs(f, projectDir, cache) ==
    IF ~HasManifest(f, projectDir) THEN Throw("No package.json found")
    ELSE IF cache.loaded THEN Return(cache.document)
    ELSE IF f.manifest[projectDir].state \in {"unreadable", "malformed"}
         THEN Throw("Error reading package.json")
         ELSE Return(Document(f.manifest[projectDir]))

\* the module cache after that call
CacheAfter(f, projectDir, cache) ==
    IF HasManifest(f, projectDir) /\ ~cache.loaded
           /\ f.manifest[projectDir].state = "ok"
    THEN Cached(Document(f.manifest[projectDir]))
    ELSE cache

\* depmanager.js lines 51-59
YarnInfoJs(yarnVersion) ==
    LET yarnType == getYarnVersionTypeJs(yarnVersion)
    IN  PackageManagerInfo("yarn", yarnVersion, yarnType,
            IF yarnType = "yarn2+"
            THEN S_yarn \o TemplateText(yarnVersion) \o S_2plus
            ELSE S_yarn \o TemplateText(yarnVersion) \o S_1x)

\* a defect: the classic command whatever the type
YarnAuditCommandClassic(yarnType) == "yarn audit"

\* lines 145-150
YarnAuditCommand(yarnType) ==
    IF yarnType = "yarn2+" THEN "yarn npm audit" ELSE "yarn audit"

---------------------------------------------------------------------------
(* cli.ts: the trace of a run *)

NoDir == <<"-">>
Exec(command, d) == [ev |-> "exec", what |-> command, dir |-> d]
Result(what, d) == [ev |-> "result", what |-> what, dir |-> d]
Visit(d) == [ev |-> "visit", what |-> "runSecurityAuditForDirectory", dir |-> d]
Log(what, d) == [ev |-> "log", what |-> what, dir |-> d]

\* where the process goes next: a position, the phase and the lines traced
Goto(p, ph, events) == [pc |-> p, phase |-> ph, events |-> events]

---------------------------------------------------------------------------
(* cli.ts: runSecurityAuditForDirectory, with depmanager.ts: runNpmAudit *)

\* a defect: no lock file is ever created
StartNpmAuditWithoutLock(f, directory, ph) ==
    Goto("npmAudit", ph, <<Exec("npm audit --json", directory)>>)

\* runNpmAudit up to its first external command, lines 123-132; ph tells
\* which call of runNpmAudit this is
StartNpmAudit(f, directory, ph) ==
    IF ~HasPackageLock(f, directory)
    THEN Goto("lockInstall", ph,
              <<Log("creating-lock", NoDir),
                Exec("npm i --package-lock-only --ignore-scripts", directory)>>)
    ELSE Goto("npmAudit", ph, <<Exec("npm audit --json", directory)>>)

\* a defect: the version is never missed
YarnMissingNever(pmInfo) == FALSE

\* line 143: !pmInfo.version
YarnMissing(pmInfo) == Falsy(pmInfo.version)

\* lines 140-151 and 171-173, up to the first external command
StartTarget(f, directory, pmInfo) ==
    LET go == IF pmInfo.manager = "yarn"
              THEN IF YarnMissing(pmInfo)
                   THEN LET n == StartNpmAudit(f, directory, "noVersion")
                        IN  Goto(n.pc, n.phase,
                                 <<Log("yarn-not-found", NoDir)>> \o n.events)
                   ELSE Goto("yarnAudit", "yarn",
                             <<Exec(YarnAuditCommand(pmInfo.type), directory)>>)
              ELSE StartNpmAudit(f, directory, "direct")
    IN  Goto(go.pc, go.phase, <<Visit(directory)>> \o go.events)

\* a defect: no workspace member falls back either
FallsBackOutsideWorkspaces(f, directory) ==
    ~getWorkspaceInfo(f, Cwd).value.hasWorkspaces

\* line 156
FallsBack(f, directory) ==
    directory # Cwd \/ ~getWorkspaceInfo(f, Cwd).value.hasWorkspaces

\* the catch clause of lines 153-170, up to the next external command
CatchYarn(f, directory) ==
    IF FallsBack(f, directory)
    THEN LET n == StartNpmAudit(f, directory, "fallback")
         IN  Goto(n.pc, n.phase, <<Log("yarn-fallback", NoDir)>> \o n.events)
    ELSE Goto("targetDone", "none", <<Log("audit-not-available", NoDir)>>)

\* a defect: the failure of runNpmAudit is not caught, it reaches the catch
\* clause of securityCommand
NpmAuditFailedPropagates(f, directory, ph) ==
    Goto("exited", "none", <<Log("error", NoDir)>>)

\* a defect: the failure is never settled, the caller waits for ever
NpmAuditFailedHangs(f, directory, ph) == Goto("hung", "none", <<>>)

\* what follows a failed runNpmAudit (or a display that throws): lines
\* 153, 161-165 and 175-179
NpmAuditFailed(f, directory, ph) ==
    IF ph = "noVersion" THEN CatchYarn(f, directory)
    ELSE Goto("targetDone", "none", <<Log("audit-not-completed", NoDir)>>)

---------------------------------------------------------------------------
(* cli.ts: runSecurityAudit *)

\* a defect: a project without workspaces has its parent directory audited
SingleTargetParent == <<>>

\* line 133: the one target of a project without workspaces
SingleTarget == Cwd

\* line 116: the first target of a workspace project
RootTarget == Cwd

\* a defect: the patterns are taken last first
IterateReversed(packages) ==
    CASE packages.t = "arr" -> Return(Reverse(packages.items))
      [] packages.t = "str" ->
            Return(Reverse([i \in 1..Len(packages.text) |-> JStr(<<packages.text[i]>>)]))
      [] OTHER -> Throw("TypeError: not iterable")

\* for (const pattern of workspaceInfo.packages): the values iterated; a
\* string is iterated by character; anything else but an array is not iterable
Iterate(packages) ==
    CASE packages.t = "arr" -> Return(packages.items)
      [] packages.t = "str" ->
            Return([i \in 1..Len(packages.text) |-> JStr(<<packages.text[i]>>)])
      [] OTHER -> Throw("TypeError: not iterable")

\* line 120
BasePath(pattern) == Replace(pattern, <<"/", "*">>, <<>>)

StartOfLoop == [pi |-> 0, ei |-> 0, entries |-> <<>>, base |-> <<>>]

Target(d, w) == [kind |-> "target", dir |-> d, walk |-> w]
Finished(w) == [kind |-> "finished", dir |-> NoDir, walk |-> w]
\* d is the path the message of the exception names
Threw(d, w) == [kind |-> "threw", dir |-> d, walk |-> w]

\* a defect: every directory among the entries is a member
IsMemberAnyDirectory(f, packagePath) == NodeKind(f, packagePath) = "dir"

\* line 125: a directory that holds a package.json
IsMember(f, packagePath) ==
    NodeKind(f, packagePath) = "dir" /\ HasManifest(f, packagePath)

\* lines 119-130 from position w on: the next directory to audit, the end of
\* the loops, or the exception of pattern.replace, readdirSync or statSync
RECURSIVE NextTarget(_, _, _)
NextTarget(f, patterns, w) ==
    IF w.ei < Len(w.entries)
    THEN LET packagePath == w.base \o <<w.entries[w.ei + 1]>>
             next == [w EXCEPT !.ei = w.ei + 1]
         IN  IF NodeKind(f, packagePath) \in {"dangling", "none"}
             THEN Threw(packagePath, next)
             ELSE IF IsMember(f, packagePath)
                  THEN Target(packagePath, next)
                  ELSE NextTarget(f, patterns, next)
    ELSE IF w.pi < Len(patterns)
         THEN LET pattern == patterns[w.pi + 1]
                  base == PathJoin(Cwd, BasePath(pattern.text))
                  next == [pi |-> w.pi + 1, ei |-> 0, entries |-> <<>>, base |-> base]
              IN  IF pattern.t # "str" THEN Threw(NoDir, next)
                  ELSE IF ~ExistsSync(f, base) THEN NextTarget(f, patterns, next)
                  ELSE IF NodeKind(f, base) # "dir" THEN Threw(base, next)
                  ELSE NextTarget(f, patterns,
                                  [next EXCEPT !.entries = Listing(f, base)])
         ELSE Finished(w)

\* the label printed for a member, line 126, and the call of line 127
MemberTarget(f, pmInfo, d) ==
    LET t == StartTarget(f, d, pmInfo)
    IN  Goto(t.pc, t.phase, <<Log("checking-workspace", d)>> \o t.events)

---------------------------------------------------------------------------
(* cli.ts: the commands.  Each action is the code from one await of an     *)
(* external command (or of an async function of the program) to the next.  *)

NoProbe == [hasYarnLock |-> FALSE, hasPackageLock |-> FALSE]
NoPm == PackageManagerInfo("none", JsNull, "none", <<>>)

CliIdle ==
    /\ pc = "idle"
    /\ cmd = "none"
    /\ probe = NoProbe
    /\ pm = NoPm
    /\ wsInfo = NoWorkspaces
    /\ walk = StartOfLoop
    /\ curDir = NoDir
    /\ phase = "none"
    /\ trace = <<>>
    /\ exitCode = -1

\* no call of the core module has been compared, no base path computed
NoCall == [fn |-> "none", arg |-> JsNull, threw |-> FALSE, value |-> <<>>]
CoreIdle == requireCache = NoCache /\ tsOut = NoCall /\ jsOut = NoCall
NoBasePath == [called |-> FALSE, value |-> <<>>]
BasePathIdle == wsPattern = <<>> /\ basePath = NoBasePath

\* no yarn output is being displayed
NoYarnOut == [stdout |-> <<>>, stderr |-> <<>>, n |-> 0 - 1]
NotShown == [called |-> FALSE, lines |-> <<>>]
DisplayIdle == yarnOut = NoYarnOut /\ shown = NotShown

Commands == {"check", "update", "security", "info"}

\* the catch clause of a command: console.error of the message, which
\* names the path d (or none), and process.exit(1)
ExitNaming(events, d) ==
    /\ pc' = "exited"
    /\ exitCode' = 1
    /\ phase' = "none"
    /\ trace' = trace \o events \o <<Log("error", d)>>

Exit1(events) == ExitNaming(events, NoDir)

\* the process moves on as g says
Move(g, events) ==
    /\ pc' = g.pc
    /\ phase' = g.phase
    /\ trace' = trace \o events \o g.events

\* checkCommand, updateCommand, securityCommand, infoCommand up to the await
\* of detectPackageManager: checkProjectValidity (twice, the second time in
\* getProjectInfo), then the probes of detectPackageManager
StartCommand(c) ==
    /\ pc = "idle"
    /\ cmd' = c
    /\ IF checkProjectValidity(fs, Cwd).threw
       THEN Exit1(<<>>) /\ UNCHANGED <<probe, pm>>
       ELSE /\ probe' = Probe(fs, Cwd)
            /\ exitCode' = exitCode
            /\ IF UsesYarn(probe')
               THEN Move(Goto("yarnVersion", "none", <<Exec("yarn --version", Cwd)>>),
                         <<>>)
                    /\ pm' = pm
               ELSE Move(Goto("detected", "none", <<>>), <<>>)
                    /\ pm' = NpmInfo(probe')
    /\ UNCHANGED <<fs, wsInfo, walk, curDir, yvtVars, wsVars, eqVars,
                 bpVars, ydVars>>

\* 'yarn --version' returns: getYarnVersion and the rest of
\* detectPackageManager
YarnVersionReturns(outcome) ==
    /\ pc = "yarnVersion"
    /\ LET r == getYarnVersion(outcome)
           res == Result(IF outcome.ok THEN "ok" ELSE "fail", Cwd)
       IN  IF r.threw
           THEN Exit1(<<res>>) /\ pm' = pm
           ELSE /\ Move(Goto("detected", "none", <<>>), <<res>>)
                /\ pm' = YarnInfo(r.value)
                /\ exitCode' = exitCode
    /\ UNCHANGED <<fs, cmd, probe, wsInfo, walk, curDir, yvtVars, wsVars, eqVars,
                 bpVars, ydVars>>

\* checkCommand and updateCommand after getProjectInfo, up to ncu.run
CheckOrUpdateBody ==
    /\ pc = "detected"
    /\ cmd \in {"check", "update"}
    /\ Move(Goto("ncu", "none", <<Log("detected-pm", NoDir), Exec("ncu.run", Cwd)>>),
            <<>>)
    /\ UNCHANGED <<fs, cmd, probe, pm, wsInfo, walk, curDir, exitCode, yvtVars, wsVars, eqVars,
                 bpVars, ydVars>>

\* ncu.run returns
NcuReturns(ok) ==
    /\ pc = "ncu"
    /\ IF ok
       THEN /\ Move(Goto("done", "none", <<Log("updates", NoDir)>>), <<Result("ok", Cwd)>>)
            /\ exitCode' = 0
       ELSE Exit1(<<Result("fail", Cwd)>>)
    /\ UNCHANGED <<fs, cmd, probe, pm, wsInfo, walk, curDir, yvtVars, wsVars, eqVars,
                 bpVars, ydVars>>

\* infoCommand after getProjectInfo; packages.join throws on anything but an
\* array
InfoBody ==
    /\ pc = "detected"
    /\ cmd = "info"
    /\ LET workspace == getWorkspaceInfo(fs, Cwd).value
       IN  IF workspace.hasWorkspaces /\ workspace.packages.t # "arr"
           THEN Exit1(<<Log("project-info", NoDir)>>)
           ELSE /\ Move(Goto("done", "none", <<Log("project-info", NoDir)>>), <<>>)
                /\ exitCode' = 0
    /\ UNCHANGED <<fs, cmd, probe, pm, wsInfo, walk, curDir, yvtVars, wsVars, eqVars,
                 bpVars, ydVars>>

\* securityCommand after getProjectInfo: runSecurityAudit up to the first
\* external command of the root's audit, lines 109-116 and 132-133
SecurityBody ==
    /\ pc = "detected"
    /\ cmd = "security"
    /\ LET workspaceInfo == getWorkspaceInfo(fs, Cwd).value
           first == IF workspaceInfo.hasWorkspaces THEN RootTarget ELSE SingleTarget
           labels == IF workspaceInfo.hasWorkspaces
                     THEN <<Log("workspace-detected", NoDir), Log("checking-root", NoDir)>>
                     ELSE <<>>
       IN  /\ wsInfo' = workspaceInfo
           /\ curDir' = first
           /\ Move(StartTarget(fs, first, pm), <<Log("detected-pm", NoDir)>> \o labels)
    /\ walk' = StartOfLoop
    /\ UNCHANGED <<fs, cmd, probe, pm, exitCode, yvtVars, wsVars, eqVars,
                 bpVars, ydVars>>

\* 'npm i --package-lock-only' returns: runNpmAudit lines 126-132.  A
\* successful install leaves a package-lock.json in the directory
LockInstallReturns(ok) ==
    /\ pc = "lockInstall"
    /\ fs' = IF ok /\ curDir \in DirPaths
             THEN [fs EXCEPT !.packageLock[curDir] = "v3"] ELSE fs
    /\ Move(Goto("npmAudit", phase, <<Exec("npm audit --json", curDir)>>),
            IF ok THEN <<Result("ok", curDir)>>
            ELSE <<Result("fail", curDir), Log("lock-failed", NoDir)>>)
    /\ UNCHANGED <<cmd, probe, pm, wsInfo, walk, curDir, exitCode, yvtVars, wsVars, eqVars,
                 bpVars, ydVars>>

\* 'npm audit --json' returns: "ok" is output that parses and displays,
\* "fail" a failed command, "unparsable" output JSON.parse rejects
NpmAuditOutcomes == {"ok", "fail", "unparsable"}

NpmAuditReturns(outcome) ==
    /\ pc = "npmAudit"
    /\ IF outcome = "ok"
       THEN Move(Goto("targetDone", "none", <<Log("npm-results", NoDir)>>),
                 <<Result("ok", curDir)>>)
       ELSE Move(NpmAuditFailed(fs, curDir, phase), <<Result(outcome, curDir)>>)
    /\ UNCHANGED <<fs, cmd, probe, pm, wsInfo, walk, curDir, exitCode, yvtVars, wsVars, eqVars,
                 bpVars, ydVars>>

\* 'yarn audit' or 'yarn npm audit' returns
YarnAuditReturns(ok) ==
    /\ pc = "yarnAudit"
    /\ IF ok
       THEN Move(Goto("targetDone", "none", <<Log("yarn-results", NoDir)>>),
                 <<Result("ok", curDir)>>)
       ELSE Move(CatchYarn(fs, curDir), <<Result("fail", curDir)>>)
    /\ UNCHANGED <<fs, cmd, probe, pm, wsInfo, walk, curDir, exitCode, yvtVars, wsVars, eqVars,
                 bpVars, ydVars>>

\* runSecurityAuditForDirectory has returned: runSecurityAudit goes on to the
\* next member, lines 119-131, or returns to securityCommand
Advance ==
    /\ pc = "targetDone"
    /\ LET it == Iterate(wsInfo.packages)
           n == NextTarget(fs, it.value, walk)
       IN  IF ~wsInfo.hasWorkspaces
           THEN /\ Move(Goto("done", "none", <<>>), <<>>)
                /\ exitCode' = 0
                /\ UNCHANGED <<walk, curDir>>
           ELSE IF it.threw
           THEN Exit1(<<>>) /\ UNCHANGED <<walk, curDir>>
           ELSE IF n.kind = "target"
           THEN /\ Move(MemberTarget(fs, pm, n.dir), <<>>)
                /\ walk' = n.walk
                /\ curDir' = n.dir
                /\ exitCode' = exitCode
           ELSE IF n.kind = "finished"
           THEN /\ Move(Goto("done", "none", <<>>), <<>>)
                /\ exitCode' = 0
                /\ walk' = n.walk
                /\ curDir' = curDir
           ELSE /\ ExitNaming(<<>>, n.dir)
                /\ walk' = n.walk
                /\ curDir' = curDir
    /\ UNCHANGED <<fs, cmd, probe, pm, wsInfo, yvtVars, wsVars, eqVars,
                 bpVars, ydVars>>

---------------------------------------------------------------------------
(* Specification of getWorkspaceInfo alone: one call on a directory whose  *)
(* manifest is any of the manifests below.                                 *)

\* "p/*", "p", "p/a" and "q/*" (no directory q exists)
PatternPool ==
    {<<"p", "/", "*">>, <<"p">>, <<"p", "/", "a">>, <<"q", "/", "*">>}
\* "**/r" and, as a nohoist entry that is also a pattern, "p/*"
NohoistPool == {<<"*", "*", "/", "r">>, <<"p", "/", "*">>}

Elems == {JStr(p) : p \in PatternPool} \cup {JNum(<<"1">>)}
ScalarValues ==
    {JUndef, JNull, JFalse, JTrue, JNum(<<"0">>), JNum(<<"3">>),
     JStr(<<>>), JStr(<<"p", "/", "*">>)}
ArrayValues == {JArr(s) : s \in StringsUpTo(Elems, MaxPatterns)}
PackagesValues == ScalarValues \cup ArrayValues \cup {JObj}
NohoistValues ==
    {JUndef} \cup {JArr(s) : s \in StringsUpTo({JStr(n) : n \in NohoistPool}, MaxNohoist)}
WorkspacesValues ==
    {WsValue(v, JUndef, JUndef) : v \in ScalarValues \cup ArrayValues}
    \cup {WsValue(JObj, p, n) : p \in PackagesValues, n \in NohoistValues}

Manifests ==
    {AbsentManifest, UnreadableManifest, MalformedManifest, NullManifest, ScalarManifest}
    \cup {WsManifest(w) : w \in WorkspacesValues}

\* a project directory with nothing in it but its manifest
BareProject(m) ==
    [node |-> [p \in TreePaths |-> "none"],
     manifest |-> [d \in DirPaths |-> IF d = Cwd THEN m ELSE AbsentManifest],
     yarnLock |-> [d \in DirPaths |-> "none"],
     packageLock |-> [d \in DirPaths |-> "none"],
     reversed |-> FALSE]

NotCalled == [called |-> FALSE, threw |-> FALSE, value |-> NoWorkspaces]

InitWS ==
    /\ fs \in {BareProject(m) : m \in Manifests}
    /\ wsOut = NotCalled
    /\ version = JsNull
    /\ yvt = "pending"
    /\ CliIdle
    /\ CoreIdle
    /\ BasePathIdle
    /\ DisplayIdle

CallGetWorkspaceInfo ==
    /\ ~wsOut.called
    /\ LET r == getWorkspaceInfo(fs, Cwd)
       IN  wsOut' = [called |-> TRUE, threw |-> r.threw, value |-> r.value]
    /\ UNCHANGED <<fs, yvtVars, cliVars, eqVars, bpVars, ydVars>>

NextWS == CallGetWorkspaceInfo

SpecWS == InitWS /\ [][NextWS]_vars

---------------------------------------------------------------------------
(* Specification of the classifier alone: every nullable string up to      *)
(* MaxVerLen characters is an argument.                                    *)

VersionInputs ==
    {JsNull, JsUndefined} \cup {JsString(s) : s \in StringsUpTo(VersionChars, MaxVerLen)}

InitYVT ==
    /\ version \in VersionInputs
    /\ yvt = "pending"
    /\ fs = BareProject(PlainManifest)
    /\ wsOut = NotCalled
    /\ CliIdle
    /\ CoreIdle
    /\ BasePathIdle
    /\ DisplayIdle

CallGetYarnVersionType ==
    /\ yvt = "pending"
    /\ yvt' = getYarnVersionType(version)
    /\ UNCHANGED <<version, fs, wsVars, cliVars, eqVars, bpVars, ydVars>>

NextYVT == CallGetYarnVersionType

SpecYVT == InitYVT /\ [][NextYVT]_vars

---------------------------------------------------------------------------
(* Specification of the command-line process: one run of one subcommand in *)
(* a project directory.                                                    *)

\* the tree below the working directory: the kind of each node, the member
\* directories holding a manifest, and the listing order
Layout(p, a, b, c, sub, manifests, reversed) ==
    [node |-> (DirP :> p) @@ (DirA :> a) @@ (DirB :> b) @@ (DirC :> c) @@ (DirS :> sub),
     manifests |-> manifests, reversed |-> reversed]

BareLayout == Layout("none", "none", "none", "none", "none", {}, FALSE)
TwoMembers == Layout("dir", "dir", "dir", "none", "none", {DirA, DirB}, FALSE)
TwoMembersReversed == Layout("dir", "dir", "dir", "none", "none", {DirA, DirB}, TRUE)
NestedMember == Layout("dir", "dir", "dir", "file", "dir", {DirA, DirS}, FALSE)
DanglingEntry == Layout("dir", "dir", "none", "dangling", "none", {DirA}, FALSE)
FileForBase == Layout("file", "none", "none", "none", "none", {}, FALSE)
DanglingFirst == Layout("dir", "dir", "none", "dangling", "none", {DirA}, TRUE)

Layouts ==
    {BareLayout, TwoMembers, TwoMembersReversed, NestedMember, DanglingEntry,
     FileForBase, DanglingFirst}

Project(m, yarnLock, packageLock, layout) ==
    [node |-> layout.node,
     manifest |-> [d \in DirPaths |->
                      IF d = Cwd THEN m
                      ELSE IF d \in layout.manifests THEN PlainManifest
                      ELSE AbsentManifest],
     yarnLock |-> [d \in DirPaths |-> IF d = Cwd THEN yarnLock ELSE "none"],
     packageLock |-> [d \in DirPaths |-> IF d = Cwd THEN packageLock ELSE "none"],
     reversed |-> layout.reversed]

P_star == JStr(<<"p", "/", "*">>)
P_dir == JStr(<<"p">>)
P_a == JStr(<<"p", "/", "a">>)
Q_star == JStr(<<"q", "/", "*">>)
Up == JStr(<<".", ".">>)

\* the manifests of the projects a command is run in
ProjectManifests ==
    {AbsentManifest, MalformedManifest, PlainManifest,
     WsManifest(WsValue(JStr(<<"p", "/", "*">>), JUndef, JUndef)),
     WsManifest(WsValue(JArr(<<>>), JUndef, JUndef)),
     WsManifest(WsValue(JArr(<<P_star>>), JUndef, JUndef)),
     WsManifest(WsValue(JArr(<<Q_star, P_a>>), JUndef, JUndef)),
     WsManifest(WsValue(JArr(<<P_star, P_dir>>), JUndef, JUndef)),
     WsManifest(WsValue(JArr(<<P_star, P_a>>), JUndef, JUndef)),
     WsManifest(WsValue(JArr(<<Up>>), JUndef, JUndef)),
     WsManifest(WsValue(JArr(<<JNum(<<"1">>), P_star>>), JUndef, JUndef)),
     WsManifest(WsValue(JObj, JArr(<<P_star>>), JArr(<<JStr(<<"*", "*", "/", "r">>)>>))),
     WsManifest(WsValue(JObj, JStr(<<"p", "/", "*">>), JUndef)),
     WsManifest(WsValue(JObj, JNum(<<"3">>), JUndef))}

YarnLockKinds == {"none", "empty", "v1"}
PackageLockKinds == {"none", "empty", "v3"}

\* what 'yarn --version' can print: "1.2\n", "3.1\n", or nothing
YarnVersionOutcomes ==
    {Outcome(FALSE, <<>>), Outcome(TRUE, <<"\n">>),
     Outcome(TRUE, <<"1", ".", "2", "\n">>), Outcome(TRUE, <<"3", ".", "1", "\n">>)}

\* the projects whose detection is studied: every combination of lock files
DetectionProjects ==
    {Project(m, y, l, BareLayout) :
        m \in {AbsentManifest, MalformedManifest, PlainManifest,
                WsManifest(WsValue(JArr(<<P_star>>), JUndef, JUndef))},
        y \in YarnLockKinds, l \in PackageLockKinds}

\* the projects whose walk is studied: every manifest in every layout, but
\* the two patterns of one base directory only where that has one member
WalkLocks == {<<"none", "none">>, <<"v1", "none">>, <<"none", "v3">>, <<"v1", "v3">>}
TwoPatternsOneBase == WsManifest(WsValue(JArr(<<P_star, P_dir>>), JUndef, JUndef))
WalkProjects ==
    {Project(c[1], c[2][1], c[2][2], c[3]) :
        c \in {x \in ProjectManifests \X WalkLocks \X Layouts :
                  x[1] = TwoPatternsOneBase
                      => x[3] \notin {TwoMembers, TwoMembersReversed}}}

Init ==
    /\ fs \in DetectionProjects \cup WalkProjects
    /\ CliIdle
    /\ wsOut = NotCalled
    /\ version = JsNull
    /\ yvt = "pending"
    /\ CoreIdle
    /\ BasePathIdle
    /\ DisplayIdle

Next ==
    \/ \E c \in Commands : StartCommand(c)
    \/ \E o \in YarnVersionOutcomes : YarnVersionReturns(o)
    \/ CheckOrUpdateBody
    \/ \E ok \in BOOLEAN : NcuReturns(ok)
    \/ InfoBody
    \/ SecurityBody
    \/ \E ok \in BOOLEAN : LockInstallReturns(ok)
    \/ \E o \in NpmAuditOutcomes : NpmAuditReturns(o)
    \/ \E ok \in BOOLEAN : YarnAuditReturns(ok)
    \/ Advance

Spec == Init /\ [][Next]_vars

\* the projects whose termination is studied: workspace projects with two
\* members, a nested member or a link to nothing, and one without workspaces
LiveProjects ==
    {Project(m, l[1], l[2], layout) :
        m \in {PlainManifest,
                WsManifest(WsValue(JArr(<<P_star>>), JUndef, JUndef)),
                WsManifest(WsValue(JArr(<<P_star, P_a>>), JUndef, JUndef))},
        l \in {<<"v1", "none">>, <<"none", "none">>},
        layout \in {TwoMembersReversed, NestedMember, DanglingFirst}}

InitLive ==
    /\ fs \in LiveProjects
    /\ CliIdle
    /\ wsOut = NotCalled
    /\ version = JsNull
    /\ yvt = "pending"
    /\ CoreIdle
    /\ BasePathIdle
    /\ DisplayIdle

\* the positions the process leaves by a step of its own or by the return
\* of the command it awaits
RunningPositions ==
    {"idle", "yarnVersion", "detected", "ncu", "lockInstall", "npmAudit",
     "yarnAudit", "targetDone"}

\* the process moves on to another position
Proceeds ==
    /\ pc \in RunningPositions
    /\ pc' \in RunningPositions \cup {"done", "exited"}

\* every external command returns and the process is scheduled
SpecLive == InitLive /\ [][Next]_vars /\ WF_pc(Proceeds)

---------------------------------------------------------------------------
(* Specification of the two core modules side by side: any sequence of     *)
(* calls of the four functions, each made on depmanager.ts and on          *)
(* depmanager.js with the same files and the same command outcome, between *)
(* changes of the manifest and of the lock files.                          *)

EqManifests ==
    {AbsentManifest, MalformedManifest, PlainManifest,
     WsManifest(WsValue(JArr(<<P_star>>), JUndef, JUndef)),
     WsManifest(WsValue(JObj, JArr(<<P_star>>), JUndef))}

EqLocks == {"none", "v1"} \X {"none", "v3"}

\* the arguments of the classifier: null, undefined and every string of up
\* to MaxVerLen of these characters
EqVersionChars == {"0", "2", "x", "."}
EqVersions ==
    {JsNull, JsUndefined} \cup {JsString(s) : s \in StringsUpTo(EqVersionChars, MaxVerLen)}

InitEq ==
    /\ fs \in {Project(m, l[1], l[2], BareLayout) : m \in EqManifests, l \in EqLocks}
    /\ version = JsNull
    /\ yvt = "pending"
    /\ wsOut = NotCalled
    /\ CliIdle
    /\ CoreIdle
    /\ BasePathIdle
    /\ DisplayIdle

\* a call of fn and what it answered; arg is the classifier's argument
Called(fn, arg, r) == [fn |-> fn, arg |-> arg, threw |-> r.threw, value |-> r.value]

\* the manifest is rewritten, created or deleted
WriteManifest(m) ==
    /\ fs' = [fs EXCEPT !.manifest[Cwd] = m]
    /\ UNCHANGED <<yvtVars, wsVars, cliVars, eqVars, bpVars, ydVars>>

\* the lock files are created or deleted
WriteLocks(l) ==
    /\ fs' = [fs EXCEPT !.yarnLock[Cwd] = l[1], !.packageLock[Cwd] = l[2]]
    /\ UNCHANGED <<yvtVars, wsVars, cliVars, eqVars, bpVars, ydVars>>

BothGetYarnVersionType(v) ==
    /\ tsOut' = Called("getYarnVersionType", v, Return(getYarnVersionType(v)))
    /\ jsOut' = Called("getYarnVersionType", v, Return(getYarnVersionTypeJs(v)))
    /\ UNCHANGED <<fs, requireCache, yvtVars, wsVars, cliVars, bpVars, ydVars>>

\* the two functions have the same text
BothGetWorkspaceInfo ==
    /\ tsOut' = Called("getWorkspaceInfo", JsNull, getWorkspaceInfo(fs, Cwd))
    /\ jsOut' = Called("getWorkspaceInfo", JsNull, getWorkspaceInfo(fs, Cwd))
    /\ UNCHANGED <<fs, requireCache, yvtVars, wsVars, cliVars, bpVars, ydVars>>

BothDetectPackageManager(outcome) ==
    /\ LET p == Probe(fs, Cwd)
           yarnVersion == getYarnVersion(outcome).value
       IN  /\ tsOut' = Called("detectPackageManager", JsNull,
                     Return(IF UsesYarn(p) THEN YarnInfo(yarnVersion) ELSE NpmInfo(p)))
           /\ jsOut' = Called("detectPackageManager", JsNull,
                     Return(IF UsesYarn(p) THEN YarnInfoJs(yarnVersion) ELSE NpmInfo(p)))
    /\ UNCHANGED <<fs, requireCache, yvtVars, wsVars, cliVars, bpVars, ydVars>>

BothCheckProjectValidity ==
    /\ tsOut' = Called("checkProjectValidity", JsNull, checkProjectValidity(fs, Cwd))
    /\ jsOut' = Called("checkProjectValidity", JsNull,
                       checkProjectValidityJs(fs, Cwd, requireCache))
    /\ requireCache' = CacheAfter(fs, Cwd, requireCache)
    /\ UNCHANGED <<fs, yvtVars, wsVars, cliVars, bpVars, ydVars>>

NextEq ==
    \/ \E m \in EqManifests : WriteManifest(m)
    \/ \E l \in EqLocks : WriteLocks(l)
    \/ \E v \in EqVersions : BothGetYarnVersionType(v)
    \/ BothGetWorkspaceInfo
    \/ \E o \in YarnVersionOutcomes : BothDetectPackageManager(o)
    \/ BothCheckProjectValidity

SpecEq == InitEq /\ [][NextEq]_vars

---------------------------------------------------------------------------
(* Specification of the base path alone: every pattern of up to MaxPatLen  *)
(* characters out of a name, '/' and '*'.                                  *)

PatternChars == {"p", "/", "*"}

InitBP ==
    /\ wsPattern \in StringsUpTo(PatternChars, MaxPatLen)
    /\ basePath = NoBasePath
    /\ DisplayIdle
    /\ fs = BareProject(PlainManifest)
    /\ version = JsNull
    /\ yvt = "pending"
    /\ wsOut = NotCalled
    /\ CliIdle
    /\ CoreIdle

CallBasePath ==
    /\ ~basePath.called
    /\ basePath' = [called |-> TRUE, value |-> BasePath(wsPattern)]
    /\ UNCHANGED <<wsPattern, fs, yvtVars, wsVars, cliVars, eqVars, ydVars>>

NextBP == CallBasePath

SpecBP == InitBP /\ [][NextBP]_vars

---------------------------------------------------------------------------
(* cli.ts: displayYarnAuditResults *)

DecimalDigits == <<"0", "1", "2", "3", "4", "5", "6", "7", "8", "9">>

IsDecimalDigit(c) == \E k \in 1..10 : DecimalDigits[k] = c

DecimalVal(c) == (CHOOSE k \in 1..10 : DecimalDigits[k] = c) - 1

\* parseInt(s, 10) of a text the expression \d+ matched
RECURSIVE ParseDecimal(_, _)
ParseDecimal(s, acc) ==
    IF s = <<>> THEN acc
    ELSE ParseDecimal(Tail(s), 10 * acc + DecimalVal(Head(s)))

\* s.includes(pat)
Includes(s, pat) == IndexOfFrom(s, pat, 1) # 0

\* s.split('\n'): the texts between the line feeds, cur the line so far
RECURSIVE SplitLines(_, _)
SplitLines(s, cur) ==
    IF s = <<>> THEN <<cur>>
    ELSE IF Head(s) = "\n" THEN <<cur>> \o SplitLines(Tail(s), <<>>)
    ELSE SplitLines(Tail(s), Append(cur, Head(s)))

NoKnownVulnerabilitiesFound ==
    <<"N", "o", " ", "k", "n", "o", "w", "n", " ", "v", "u", "l", "n",
          "e", "r", "a", "b", "i", "l", "i", "t", "i", "e", "s", " ",
          "f", "o", "u", "n", "d">>

ZeroVulnerabilitiesFound ==
    <<"0", " ", "v", "u", "l", "n", "e", "r", "a", "b", "i", "l", "i",
          "t", "i", "e", "s", " ", "f", "o", "u", "n", "d">>

VulnerabilitiesFound ==
    <<"v", "u", "l", "n", "e", "r", "a", "b", "i", "l", "i", "t", "i",
          "e", "s", " ", "f", "o", "u", "n", "d">>

VulnerabilityFound ==
    <<"v", "u", "l", "n", "e", "r", "a", "b", "i", "l", "i", "t", "y",
          " ", "f", "o", "u", "n", "d">>

Vulnerabilit ==
    <<"v", "u", "l", "n", "e", "r", "a", "b", "i", "l", "i", "t">>

\* the first position from i on that holds no decimal digit
RECURSIVE DigitsEnd(_, _)
DigitsEnd(s, i) ==
    IF i <= Len(s) /\ IsDecimalDigit(s[i]) THEN DigitsEnd(s, i + 1) ELSE i

\* the first position from i on that holds no white space
RECURSIVE SpaceEnd(_, _)
SpaceEnd(s, i) ==
    IF i <= Len(s) /\ s[i] \in WhiteSpace THEN SpaceEnd(s, i + 1) ELSE i

\* /(\d+)\s+vulnerabilit/ matches at position i: digits, white space, the stem
MatchesAt(s, i) ==
    LET j == DigitsEnd(s, i)
        k == SpaceEnd(s, j)
    IN  /\ j > i
        /\ k > j
        /\ k + Len(Vulnerabilit) - 1 <= Len(s)
        /\ SubSeq(s, k, k + Len(Vulnerabilit) - 1) = Vulnerabilit

\* line.match(/(\d+)\s+vulnerabilit/): the leftmost match and its group
Match(line) ==
    LET starts == {i \in 1..Len(line) : MatchesAt(line, i)}
    IN  IF starts = {} THEN [found |-> FALSE, group |-> <<>>]
        ELSE LET i == CHOOSE x \in starts : \A y \in starts : x <= y
             IN  [found |-> TRUE, group |-> SubSeq(line, i, DigitsEnd(line, i) - 1)]

\* lines.forEach: the count of the last line that states one
RECURSIVE CountOfLines(_, _)
CountOfLines(lines, vulnCount) ==
    IF lines = <<>> THEN vulnCount
    ELSE LET line == Head(lines)
             m == Match(line)
             stated == /\ Includes(line, VulnerabilitiesFound)
                          \/ Includes(line, VulnerabilityFound)
                       /\ m.found
         IN  CountOfLines(Tail(lines),
                          IF stated THEN ParseDecimal(m.group, 0) ELSE vulnCount)

\* one console.log of the display
Console(what, n) == [line |-> what, n |-> n]

displayYarnAuditResults(stdout, stderr) ==
    IF \/ Includes(stdout, NoKnownVulnerabilitiesFound)
       \/ Includes(stderr, NoKnownVulnerabilitiesFound)
       \/ Includes(stdout, ZeroVulnerabilitiesFound)
    THEN <<Console("no-vulnerabilities", 0)>>
    ELSE LET vulnCount == CountOfLines(SplitLines(stdout, <<>>), 0)
         IN  IF vulnCount > 0
             THEN <<Console("header", 0), Console("stdout", 0),
                    Console("found", vulnCount), Console("tip", 0)>>
             ELSE <<Console("header", 0), Console("no-vulnerabilities", 0)>>

---------------------------------------------------------------------------
(* Specification of the display alone: the output of a yarn audit that     *)
(* states a count of up to MaxVulnCount vulnerabilities or of 100, with    *)
(* and without advisories before the count, the output that knows of no    *)
(* vulnerability, and an output of advisories without a count.             *)

\* the decimal text of n
RECURSIVE Decimal(_)
Decimal(n) ==
    IF n < 10 THEN <<DecimalDigits[n + 1]>>
    ELSE Decimal(n \div 10) \o <<DecimalDigits[(n % 10) + 1]>>

Counts == 0..MaxVulnCount \cup {100}

Advisory ==
    <<"h", "i", "g", "h", " ", "l", "o", "d", "a", "s", "h">>

PackagesAudited ==
    <<" ", "-", " ", "P", "a", "c", "k", "a", "g", "e", "s", " ", "a",
          "u", "d", "i", "t", "e", "d", ":", " ", "5">>

YarnWarning ==
    <<"w", "a", "r", "n", "i", "n", "g", "\n">>

\* the line of yarn that states the count n
CountLine(n, noun) == Decimal(n) \o <<" ">> \o noun

CountedOutputs ==
    {[stdout |-> pre \o CountLine(n, VulnerabilitiesFound) \o post \o <<"\n">>,
      stderr |-> e, n |-> n] :
        n \in Counts, pre \in {<<>>, Advisory \o <<"\n">>},
        post \in {<<>>, PackagesAudited}, e \in {<<>>, YarnWarning}}

SingularOutputs ==
    {[stdout |-> pre \o CountLine(1, VulnerabilityFound) \o <<"\n">>,
      stderr |-> <<>>, n |-> 1] : pre \in {<<>>, Advisory \o <<"\n">>}}

CleanOutputs ==
    {[stdout |-> NoKnownVulnerabilitiesFound \o <<"\n">>, stderr |-> <<>>, n |-> 0],
     [stdout |-> <<>>, stderr |-> NoKnownVulnerabilitiesFound \o <<"\n">>, n |-> 0]}

UncountedOutputs ==
    {[stdout |-> Advisory \o <<"\n">>, stderr |-> e, n |-> 0 - 1] :
        e \in {<<>>, YarnWarning}}

YarnOutputs == CountedOutputs \cup SingularOutputs \cup CleanOutputs \cup UncountedOutputs

InitYD ==
    /\ yarnOut \in YarnOutputs
    /\ shown = NotShown
    /\ fs = BareProject(PlainManifest)
    /\ version = JsNull
    /\ yvt = "pending"
    /\ wsOut = NotCalled
    /\ CliIdle
    /\ CoreIdle
    /\ wsPattern = <<>>
    /\ basePath = NoBasePath

CallDisplayYarnAuditResults ==
    /\ ~shown.called
    /\ shown' = [called |-> TRUE,
                 lines |-> displayYarnAuditResults(yarnOut.stdout, yarnOut.stderr)]
    /\ UNCHANGED <<yarnOut, fs, yvtVars, wsVars, cliVars, eqVars, bpVars>>

NextYD == CallDisplayYarnAuditResults

SpecYD == InitYD /\ [][NextYD]_vars

---------------------------------------------------------------------------
(* Properties of getYarnVersionType, under SpecYVT *)

\* the leading component of the argument, parsed as the code parses it
MajorOf(v) == ParseInt10(SplitFirst(v.s))

\* C1: for a non-empty version string the result is 'yarn2+' iff the integer
\* before the first '.' is >= 2 and 'yarn1' iff it is in [0,2); for null or
\* undefined the result is null.
C1_ClassifiedByMajor ==
    yvt # "pending" =>
        /\ version.kind # "string" => yvt = "null"
        /\ (version.kind = "string" /\ version.s # <<>>) =>
            /\ (yvt = "yarn2+") <=> (~MajorOf(version).nan /\ MajorOf(version).n >= 2)
            /\ (yvt = "yarn1") <=>
                   (~MajorOf(version).nan /\ MajorOf(version).n >= 0
                                          /\ MajorOf(version).n < 2)

\* C2: a version string whose leading component is no integer is classified
\* as neither family: the result is null.
C2_UnparsableIsNeither ==
    (yvt # "pending" /\ version.kind = "string" /\ version.s # <<>>
        /\ MajorOf(version).nan)
    => yvt = "null"

---------------------------------------------------------------------------
(* Properties of getWorkspaceInfo, under SpecWS *)

RootManifest == fs.manifest[Cwd]

\* the workspaces field the manifest declares, undefined when there is none
DeclaredWs ==
    IF RootManifest.state = "ok" /\ RootManifest.doc = "obj"
    THEN RootManifest.workspaces ELSE NoWs

IsPatternSeq(v) ==
    v.t = "arr" /\ \A i \in 1..Len(v.items) : v.items[i].t = "str"

SeqElems(q) == {q[i] : i \in 1..Len(q)}

\* C3: getWorkspaceInfo never throws; without a manifest, or with manifest
\* text that does not parse, it returns {hasWorkspaces: false, packages: []}.
C3_NeverThrows ==
    wsOut.called =>
        /\ ~wsOut.threw
        /\ RootManifest.state \in {"absent", "malformed"}
               => wsOut.value = WorkspaceInfo(FALSE, JArr(<<>>))

C3_Witness == wsOut.called /\ RootManifest.state = "malformed"

\* C4: a workspaces field that is a sequence of patterns is returned verbatim
\* with hasWorkspaces true: same elements, same order, same length.
C4_ArrayVerbatim ==
    (wsOut.called /\ IsPatternSeq(DeclaredWs)) =>
        /\ ~wsOut.threw
        /\ wsOut.value.hasWorkspaces
        /\ wsOut.value.packages.t = "arr"
        /\ wsOut.value.packages.items = DeclaredWs.items

C4_Witness ==
    /\ wsOut.called
    /\ IsPatternSeq(DeclaredWs)
    /\ DeclaredWs.items = <<JStr(<<"p", "/", "a">>), JStr(<<"p", "/", "*">>)>>

\* C5: a workspaces record with a packages sequence, with or without nohoist,
\* yields hasWorkspaces true and exactly that packages sequence; a nohoist
\* entry that is not itself one of the packages never appears in the result.
C5_RecordPackages ==
    (wsOut.called /\ DeclaredWs.t = "obj" /\ IsPatternSeq(DeclaredWs.packages)) =>
        /\ ~wsOut.threw
        /\ wsOut.value.hasWorkspaces
        /\ wsOut.value.packages = DeclaredWs.packages
        /\ \A e \in SeqElems(DeclaredWs.nohoist.items) \ SeqElems(DeclaredWs.packages.items) :
               e \notin SeqElems(wsOut.value.packages.items)

C5_Witness ==
    /\ wsOut.called
    /\ DeclaredWs.t = "obj"
    /\ DeclaredWs.packages = JArr(<<JStr(<<"p", "/", "*">>), JStr(<<"q", "/", "*">>)>>)
    /\ DeclaredWs.nohoist = JArr(<<JStr(<<"*", "*", "/", "r">>)>>)

\* C6: a workspaces field that is absent, or neither a sequence of patterns
\* nor a record whose packages is a sequence of patterns, yields
\* {hasWorkspaces: false, packages: []}; whenever hasWorkspaces is true,
\* packages is a sequence of pattern strings.
C6_MalformedIsNoWorkspaces ==
    wsOut.called =>
        /\ (~IsPatternSeq(DeclaredWs)
                /\ ~(DeclaredWs.t = "obj" /\ IsPatternSeq(DeclaredWs.packages)))
           => (~wsOut.threw /\ wsOut.value = WorkspaceInfo(FALSE, JArr(<<>>)))
        /\ (~wsOut.threw /\ wsOut.value.hasWorkspaces)
           => IsPatternSeq(wsOut.value.packages)

---------------------------------------------------------------------------
(* Properties of detection and of the walk, under Spec *)

EndsWith(s, suffix) ==
    Len(s) >= Len(suffix) /\ SubSeq(s, Len(s) - Len(suffix) + 1, Len(s)) = suffix

\* detectPackageManager has just returned to getProjectInfo
Detected == pc = "detected"

\* C7: a yarn.lock makes the manager yarn whether or not package-lock.json
\* exists; else a package-lock.json gives the npm record with displayName
\* 'npm'; else the same record with 'npm (default)'.  Only the presence of
\* the lock files counts, whatever their content.
C7_DetectionPriority ==
    Detected =>
        /\ fs.yarnLock[Cwd] # "none" => pm.manager = "yarn"
        /\ (fs.yarnLock[Cwd] = "none" /\ fs.packageLock[Cwd] # "none") =>
               pm = [manager |-> "npm", version |-> JsNull, type |-> "npm",
                     displayName |-> <<"n", "p", "m">>]
        /\ (fs.yarnLock[Cwd] = "none" /\ fs.packageLock[Cwd] = "none") =>
               pm = [manager |-> "npm", version |-> JsNull, type |-> "npm",
                     displayName |-> <<"n", "p", "m", " ", "(", "d", "e", "f",
                                       "a", "u", "l", "t", ")">>]

C7_Witness ==
    /\ Detected
    /\ fs.yarnLock[Cwd] = "empty"
    /\ fs.packageLock[Cwd] = "v3"
    /\ pm.manager = "yarn"

\* C8: with a yarn.lock the displayName agrees with the type: 'yarn
\* <version> (2+)' exactly when the type is yarn2+, 'yarn <version> (1.x)'
\* exactly when it is yarn1, and with the version absent the displayName
\* claims neither '(1.x)' nor '(2+)'.
C8_DisplayAgreesWithType ==
    (Detected /\ pm.manager = "yarn") =>
        /\ EndsWith(pm.displayName, <<" ", "(", "2", "+", ")">>) <=> pm.type = "yarn2+"
        /\ EndsWith(pm.displayName, <<" ", "(", "1", ".", "x", ")">>) <=> pm.type = "yarn1"
        /\ pm.version.kind # "string" =>
               /\ ~EndsWith(pm.displayName, <<" ", "(", "2", "+", ")">>)
               /\ ~EndsWith(pm.displayName, <<" ", "(", "1", ".", "x", ")">>)
        /\ pm.version.kind = "string" =>
               \/ pm.type \notin {"yarn1", "yarn2+"}
               \/ pm.displayName \in
                      {<<"y", "a", "r", "n", " ">> \o pm.version.s \o <<" ", "(", "2", "+", ")">>,
                       <<"y", "a", "r", "n", " ">> \o pm.version.s
                           \o <<" ", "(", "1", ".", "x", ")">>}

\* 'yarn --version' was run and failed
YarnVersionFailed ==
    /\ Len(trace) >= 2
    /\ trace[1] = Exec("yarn --version", Cwd)
    /\ trace[2] = Result("fail", Cwd)

\* C9: with a yarn.lock and a failing 'yarn --version', detectPackageManager
\* does not fail: it returns manager 'yarn' with version null and type null.
C9_YarnVersionFailure ==
    YarnVersionFailed =>
        /\ pm.manager = "yarn"
        /\ pm.version = JsNull
        /\ pm.type = "null"
        /\ Len(trace) = 2 => (pc = "detected" /\ exitCode = -1)

C9_Witness == YarnVersionFailed /\ Detected /\ pm.manager = "yarn"

Visits == SelectSeq(trace, LAMBDA e : e.ev = "visit")

\* runSecurityAudit has been entered
WalkStarted ==
    cmd = "security" /\ \E i \in 1..Len(trace) : trace[i] = Log("detected-pm", NoDir)

AuditCommands ==
    {"npm audit --json", "npm i --package-lock-only --ignore-scripts",
     "yarn audit", "yarn npm audit"}

\* C10: in a project without workspaces runSecurityAudit visits one target,
\* the root directory, once, and no other directory is ever audited.
C10_SingleRootVisit ==
    (WalkStarted /\ ~wsInfo.hasWorkspaces) =>
        /\ Visits = <<Visit(Cwd)>>
        /\ \A i \in 1..Len(trace) :
               (trace[i].ev = "exec" /\ trace[i].what \in AuditCommands)
                   => trace[i].dir = Cwd

C10_Witness ==
    /\ WalkStarted
    /\ pc = "done"
    /\ ~wsInfo.hasWorkspaces
    /\ DeclaredWs.t = "str"
    /\ HasManifest(fs, DirA)
    /\ HasManifest(fs, DirB)

---------------------------------------------------------------------------
(* Properties of the walk over workspace members, under Spec *)

VisitDirs == [i \in 1..Len(Visits) |-> Visits[i].dir]

IsPrefix(a, b) == Len(a) <= Len(b) /\ SubSeq(b, 1, Len(a)) = a

\* d is a directory with its own manifest
Qualifies(d) == NodeKind(fs, d) = "dir" /\ HasManifest(fs, d)

\* the pattern without its '/*' suffix
StripSuffix(s) ==
    IF EndsWith(s, <<"/", "*">>) THEN SubSeq(s, 1, Len(s) - Len(<<"/", "*">>)) ELSE s

\* the members below a base directory, in the order the file system lists them
MembersUnder(base) ==
    IF NodeKind(fs, base) # "dir" THEN <<>>
    ELSE LET names == Listing(fs, base)
         IN  SelectSeq([i \in 1..Len(names) |-> base \o <<names[i]>>], Qualifies)

RECURSIVE ExpectedMembers(_)
ExpectedMembers(patterns) ==
    IF patterns = <<>> THEN <<>>
    ELSE MembersUnder(PathJoin(Cwd, StripSuffix(Head(patterns).text)))
             \o ExpectedMembers(Tail(patterns))

\* root first, then pattern by pattern, then entry by entry
ExpectedOrder == <<Cwd>> \o ExpectedMembers(wsInfo.packages.items)

\* the walk of a project that declares a sequence of patterns
WorkspaceWalk == WalkStarted /\ wsInfo.hasWorkspaces /\ IsPatternSeq(wsInfo.packages)

\* the subdirectories of p that hold a manifest
MembersOfP == {d \in {DirA, DirB, DirC} : Qualifies(d)}

Occurrences(q, x) == Cardinality({i \in 1..Len(q) : q[i] = x})

AwaitingCommand == pc \in {"yarnVersion", "ncu", "lockInstall", "npmAudit", "yarnAudit"}

\* the directory of the last visit before position i of the trace
RECURSIVE LastVisitBefore(_)
LastVisitBefore(i) ==
    IF i <= 1 THEN NoDir
    ELSE IF trace[i - 1].ev = "visit" THEN trace[i - 1].dir
    ELSE LastVisitBefore(i - 1)

\* C12: targets are visited root first, then by pattern in declaration order,
\* then by entry in listing order; a command is awaited before anything else
\* starts, so at most one command is in flight, and every audit command runs
\* in the directory of the target visited last.
C12_SequentialWalk ==
    /\ \A i \in 1..Len(trace) :
           trace[i].ev = "exec" =>
               /\ i < Len(trace) =>
                      (trace[i + 1].ev = "result" /\ trace[i + 1].dir = trace[i].dir)
               /\ trace[i].what \in AuditCommands => trace[i].dir = LastVisitBefore(i)
    /\ AwaitingCommand <=> (trace # <<>> /\ trace[Len(trace)].ev = "exec")
    /\ WorkspaceWalk =>
           /\ IsPrefix(VisitDirs, ExpectedOrder)
           /\ pc = "done" => VisitDirs = ExpectedOrder

C12_Witness ==
    /\ WorkspaceWalk
    /\ pc = "done"
    /\ wsInfo.packages = JArr(<<JStr(<<"p", "/", "*">>), JStr(<<"p", "/", "a">>)>>)
    /\ VisitDirs = <<Cwd, DirA, DirS>>
    /\ \E i \in 1..Len(trace) : trace[i] = Log("yarn-fallback", NoDir)

YarnAuditCommands == {"yarn audit", "yarn npm audit"}

\* position i of the trace is the failure of a yarn audit
YarnAuditFailedAt(i) ==
    /\ i > 1
    /\ trace[i].ev = "result"
    /\ trace[i].what = "fail"
    /\ trace[i - 1].ev = "exec"
    /\ trace[i - 1].what \in YarnAuditCommands

\* the position of the first visit after position i, past the end without one
RECURSIVE NextVisitAfter(_)
NextVisitAfter(i) ==
    IF i >= Len(trace) THEN Len(trace) + 1
    ELSE IF trace[i + 1].ev = "visit" THEN i + 1
    ELSE NextVisitAfter(i + 1)

\* the target visited before position i has been left
TargetLeft(i) ==
    NextVisitAfter(i) <= Len(trace) \/ pc \in {"targetDone", "done", "exited"}

NpmExecsBetween(i, j, what) ==
    {k \in (i + 1)..(j - 1) : trace[k].ev = "exec" /\ trace[k].what = what}

\* C13: after a failed yarn audit of a target, 'npm audit' runs in that same
\* directory exactly once when the target is not the root or the project has
\* no workspaces; for the root of a workspace project no npm command runs.
C13_FallbackPolicy ==
    \A i \in 1..Len(trace) :
        YarnAuditFailedAt(i) =>
            LET d == trace[i].dir
                j == NextVisitAfter(i)
                audits == NpmExecsBetween(i, j, "npm audit --json")
                installs == NpmExecsBetween(i, j, "npm i --package-lock-only --ignore-scripts")
            IN  IF d # Cwd \/ ~wsInfo.hasWorkspaces
                THEN /\ Cardinality(audits) <= 1
                     /\ \A k \in audits \cup installs : trace[k].dir = d
                     /\ (TargetLeft(i) \/ pc = "npmAudit") => Cardinality(audits) = 1
                ELSE audits = {} /\ installs = {}

C13_Witness ==
    /\ pc = "done"
    /\ wsInfo.hasWorkspaces
    /\ \E i \in 1..Len(trace) : YarnAuditFailedAt(i) /\ trace[i].dir = Cwd
    /\ \E i \in 1..Len(trace) :
           /\ YarnAuditFailedAt(i)
           /\ trace[i].dir = DirA
           /\ \E k \in (i + 1)..Len(trace) : trace[k] = Exec("npm audit --json", DirA)

\* position i of the trace is the failure of a command of an audit
AuditFailedAt(i) ==
    /\ i > 1
    /\ trace[i].ev = "result"
    /\ trace[i].what \in {"fail", "unparsable"}
    /\ trace[i - 1].ev = "exec"
    /\ trace[i - 1].what \in AuditCommands

\* the values the loop over the packages takes
PatternsWalked ==
    IF wsInfo.packages.t = "str"
    THEN [i \in 1..Len(wsInfo.packages.text) |-> JStr(<<wsInfo.packages.text[i]>>)]
    ELSE wsInfo.packages.items

\* the enumeration of the members itself fails: the packages cannot be
\* iterated, a pattern is no string, a base is a file or an entry of a base
\* is a link to nothing
EnumerationFails ==
    /\ wsInfo.hasWorkspaces
    /\ \/ wsInfo.packages.t \notin {"arr", "str"}
       \/ \E k \in 1..Len(PatternsWalked) :
              \/ PatternsWalked[k].t # "str"
              \/ LET base == PathJoin(Cwd, StripSuffix(PatternsWalked[k].text))
                 IN  \/ NodeKind(fs, base) = "file"
                     \/ /\ NodeKind(fs, base) = "dir"
                        /\ \E n \in SeqElems(Listing(fs, base)) :
                               NodeKind(fs, base \o <<n>>) = "dangling"

\* C14: the failure of a target's audit is caught for that target: it is
\* followed by a diagnostic or by the fallback, never by the error exit of
\* the command; the process exits with an error only where the enumeration
\* itself fails, and a walk that runs to its end has visited every target.
C14_AuditFailureIsLocal ==
    WalkStarted =>
        /\ \A i \in 1..Len(trace) :
               AuditFailedAt(i) =>
                   /\ i < Len(trace)
                   /\ trace[i + 1].what # "error"
                   /\ trace[i + 1].ev \in {"log", "exec"}
        /\ pc # "exited" \/ EnumerationFails
        /\ exitCode # 1 \/ pc = "exited"
        /\ (pc = "done" /\ WorkspaceWalk) => VisitDirs = ExpectedOrder
        /\ (pc = "done" /\ ~wsInfo.hasWorkspaces) => VisitDirs = <<Cwd>>

C14_Witness ==
    /\ WorkspaceWalk
    /\ pc = "done"
    /\ exitCode = 0
    /\ VisitDirs = <<Cwd, DirA, DirB>>
    /\ \E i \in 1..Len(trace) : AuditFailedAt(i) /\ trace[i].dir = Cwd
    /\ \E i \in 1..Len(trace) : AuditFailedAt(i) /\ trace[i].dir = DirA

---------------------------------------------------------------------------
(* Properties of the commands, under Spec *)

\* C15: a subcommand run in a directory without a manifest prints a
\* diagnostic and exits with status 1 before any detection, any external
\* command and any call of the version-check library.
C15_NoManifestIsFatal ==
    (cmd # "none" /\ ~HasManifest(fs, Cwd)) =>
        /\ pc = "exited"
        /\ exitCode = 1
        /\ trace = <<Log("error", NoDir)>>
        /\ probe = NoProbe
        /\ pm = NoPm

C15_Witness ==
    /\ cmd = "check"
    /\ ~HasManifest(fs, Cwd)
    /\ HasYarnLock(fs, Cwd)
    /\ pc = "exited"

\* C16: a manifest whose text does not parse never makes a command fail: the
\* command does not end with the error exit before it has done anything.
C16_MalformedIsRecovered ==
    (cmd # "none" /\ RootManifest.state = "malformed") =>
        ~(pc = "exited" /\ exitCode = 1 /\ trace = <<Log("error", NoDir)>>)

FirstAuditCommands == {"npm audit --json", "yarn audit", "yarn npm audit"}

\* position j holds the first audit command after the visit at position i
FirstAuditAfter(i, j) ==
    /\ j > i
    /\ trace[j].ev = "exec"
    /\ trace[j].what \in FirstAuditCommands
    /\ \A k \in (i + 1)..(j - 1) :
           /\ trace[k].ev # "visit"
           /\ ~(trace[k].ev = "exec" /\ trace[k].what \in FirstAuditCommands)

\* C17: the first audit command of a target is 'npm audit --json' for npm,
\* 'yarn audit' for yarn of type yarn1 and 'yarn npm audit' for yarn of type
\* yarn2+, run in the target's directory; 'yarn npm audit' is never run for
\* yarn1 nor 'yarn audit' for yarn2+.
C17_FirstAuditCommand ==
    /\ \A i \in 1..Len(trace) :
           trace[i].ev = "visit" =>
               /\ \A j \in 1..Len(trace) :
                      FirstAuditAfter(i, j) =>
                          /\ trace[j].dir = trace[i].dir
                          /\ pm.manager = "npm" => trace[j].what = "npm audit --json"
                          /\ (pm.manager = "yarn" /\ pm.type = "yarn1") =>
                                 trace[j].what = "yarn audit"
                          /\ (pm.manager = "yarn" /\ pm.type = "yarn2+") =>
                                 trace[j].what = "yarn npm audit"
               /\ (TargetLeft(i) /\ pm.type \in {"npm", "yarn1", "yarn2+"}) =>
                      \E j \in 1..Len(trace) : FirstAuditAfter(i, j)
    /\ \A i \in 1..Len(trace) :
           trace[i].ev = "exec" =>
               /\ pm.type = "yarn1" => trace[i].what # "yarn npm audit"
               /\ pm.type = "yarn2+" => trace[i].what # "yarn audit"

C17_Witness ==
    /\ pm.type = "yarn2+"
    /\ pc = "done"
    /\ \E i \in 1..Len(trace) : trace[i] = Exec("yarn npm audit", DirA)

\* the members the patterns declare: the directories with a manifest right
\* below the base directory of a pattern
DeclaredMembers ==
    {d \in DirPaths :
        /\ Qualifies(d)
        /\ \E k \in 1..Len(wsInfo.packages.items) :
               SubSeq(d, 1, Len(d) - 1)
                   = PathJoin(Cwd, StripSuffix(wsInfo.packages.items[k].text))}

\* C19: when the walk is over, every declared member was audited or a
\* diagnostic line names it.
C19_NoMemberLostSilently ==
    (WorkspaceWalk /\ pc \in {"done", "exited"}) =>
        \A d \in DeclaredMembers :
            \/ \E i \in 1..Len(trace) : trace[i] = Visit(d)
            \/ \E i \in 1..Len(trace) :
                   trace[i].ev = "log" /\ trace[i].what = "error" /\ trace[i].dir = d

---------------------------------------------------------------------------
(* Properties of the two core modules, under SpecEq *)

\* C18: whatever was called and whatever the files were changed to before,
\* depmanager.ts and depmanager.js answer alike: both raise an error or both
\* return the same value.
C18_TsPreservesJs ==
    tsOut.fn # "none" =>
        /\ tsOut.threw = jsOut.threw
        /\ ~tsOut.threw => tsOut.value = jsOut.value

---------------------------------------------------------------------------
(* Properties of the base path, under SpecBP *)

\* C20: the base path is the pattern without its '/*' suffix when it ends in
\* '/*' and the pattern itself otherwise; a '/*' elsewhere is not removed.
C20_OnlySuffixStripped ==
    basePath.called => basePath.value = StripSuffix(wsPattern)

---------------------------------------------------------------------------
(* Properties of the members audited, under Spec *)

\* the walk has come to an end, normally or by an error exit
WalkOver == pc \in {"done", "exited"}

\* the directories visited after the root's visit
MemberVisits == {VisitDirs[i] : i \in 2..Len(VisitDirs)}

C22_ExactlyTheMembers ==
    WorkspaceWalk =>
        /\ MemberVisits \subseteq DeclaredMembers
        /\ \A d \in MemberVisits : Qualifies(d)
        /\ WalkOver => MemberVisits = DeclaredMembers

\* C23: with manager yarn and no yarn version, no yarn audit command is ever
\* run: each visit, of the root or of a member, says that yarn was not found
\* and goes on with the npm audit of that directory.
C23_NoVersionGoesToNpm ==
    (pm.manager = "yarn" /\ Falsy(pm.version)) =>
        /\ \A i \in 1..Len(trace) :
               trace[i].ev = "exec" => trace[i].what \notin YarnAuditCommands
        /\ \A i \in 1..Len(trace) :
               trace[i].ev = "visit" =>
                   /\ i + 2 <= Len(trace)
                   /\ trace[i + 1] = Log("yarn-not-found", NoDir)
                   /\ trace[i + 2] \in
                          {Log("creating-lock", NoDir),
                           Exec("npm audit --json", trace[i].dir)}
                   /\ trace[i + 2].ev = "log" =>
                          /\ i + 3 <= Len(trace)
                          /\ trace[i + 3] = Exec("npm i --package-lock-only --ignore-scripts",
                                                 trace[i].dir)

C23_Witness ==
    /\ pm.manager = "yarn"
    /\ pm.version = JsNull
    /\ pc = "done"
    /\ \E i \in 1..Len(trace) : trace[i] = Exec("npm audit --json", Cwd)
    /\ \E i \in 1..Len(trace) : trace[i] = Exec("npm audit --json", DirA)

\* C26: one visit of a target runs 'npm audit --json' at most once; a failed
\* npm audit is not retried.
C26_NpmAuditAtMostOnce ==
    \A i \in 1..Len(trace) :
        trace[i].ev = "visit" =>
            Cardinality(NpmExecsBetween(i, NextVisitAfter(i), "npm audit --json")) <= 1

\* C27: no directory is visited twice in one walk.
C27_NoDirectoryTwice ==
    \A i, j \in 1..Len(Visits) : i # j => Visits[i] # Visits[j]

\* what detectPackageManager would report for the root now
ManagerNow == IF UsesYarn(Probe(fs, Cwd)) THEN "yarn" ELSE "npm"

\* C30: once the walk has started, detection of the root reports what it
\* reported before: the same manager, and for npm the same record.
C30_DetectionUnchanged ==
    WalkStarted =>
        /\ ManagerNow = pm.manager
        /\ pm.manager = "npm" => NpmInfo(Probe(fs, Cwd)) = pm

---------------------------------------------------------------------------
(* Properties of runNpmAudit, under Spec *)

InstallCommand == "npm i --package-lock-only --ignore-scripts"

\* the trace around every lock-file creation and every npm audit
LockThenAuditTrace ==
    \A i \in 1..Len(trace) :
        /\ (trace[i].ev = "exec" /\ trace[i].what = InstallCommand) =>
               /\ trace[i - 1] = Log("creating-lock", NoDir)
               /\ i + 1 <= Len(trace) =>
                      IF trace[i + 1].what = "ok"
                      THEN trace[i + 2] = Exec("npm audit --json", trace[i].dir)
                      ELSE /\ trace[i + 2] = Log("lock-failed", NoDir)
                           /\ trace[i + 3] = Exec("npm audit --json", trace[i].dir)
        /\ (trace[i].ev = "exec" /\ trace[i].what = "npm audit --json"
                /\ i + 1 <= Len(trace)) =>
               IF trace[i + 1].what = "ok"
               THEN trace[i + 2] = Log("npm-results", NoDir)
               ELSE trace[i + 2].what \in
                        {"audit-not-completed", "yarn-fallback", "audit-not-available"}

\* the step that starts runNpmAudit runs the install when the directory has
\* no package-lock.json and the audit when it has one
LockIffMissing ==
    (Len(trace') > Len(trace) /\ pc # "lockInstall") =>
        LET last == trace'[Len(trace')]
        IN  /\ (last.ev = "exec" /\ last.what = InstallCommand) =>
                   ~HasPackageLock(fs, last.dir)
            /\ (last.ev = "exec" /\ last.what = "npm audit --json") =>
                   HasPackageLock(fs, last.dir)

\* C24: runNpmAudit runs the lock-file install iff the directory has no
\* package-lock.json, before the audit; whether the install succeeds or not,
\* 'npm audit --json' runs once after it, and only a failed or unparsable
\* audit makes runNpmAudit fail.
C24_LockThenAudit == []LockThenAuditTrace /\ [][LockIffMissing]_vars

C24_Witness ==
    /\ pc = "done"
    /\ \E i \in 1..Len(trace) :
           /\ trace[i] = Exec(InstallCommand, DirA)
           /\ trace[i + 1] = Result("fail", DirA)
           /\ trace[i + 3] = Exec("npm audit --json", DirA)
           /\ trace[i + 4] = Result("ok", DirA)

---------------------------------------------------------------------------
(* Termination of the walk, under SpecLive *)

\* while a command is awaited, the only step is the return of that command
OnlyTheReturn ==
    AwaitingCommand =>
        /\ Len(trace') > Len(trace)
        /\ trace'[Len(trace) + 1].ev = "result"
        /\ trace'[Len(trace) + 1].dir = trace[Len(trace)].dir

\* C25: when every command returns, a walk that has started comes to its
\* end, and a walk that is over has visited every target; while a command
\* has not returned nothing else happens: no visit, no end.
C25_WalkTerminates ==
    /\ WalkStarted ~> WalkOver
    /\ []((WalkOver /\ WorkspaceWalk) => VisitDirs = ExpectedOrder)
    /\ [](AwaitingCommand => ~WalkOver)
    /\ [][OnlyTheReturn]_vars

---------------------------------------------------------------------------
(* Emptiness of the packages, under SpecWS *)

NonEmpty(v) ==
    CASE v.t = "arr" -> v.items # <<>>
      [] v.t = "str" -> v.text # <<>>
      [] OTHER -> TRUE

\* C28: hasWorkspaces is true iff packages is not empty.
C28_WorkspacesIffPackages ==
    wsOut.called => (wsOut.value.hasWorkspaces <=> NonEmpty(wsOut.value.packages))

---------------------------------------------------------------------------
(* Properties of the display of a yarn audit, under SpecYD *)

ShownLines == {shown.lines[i] : i \in 1..Len(shown.lines)}

\* C29: an output that states a count above zero is shown with the header
\* and that count and without the message of no vulnerabilities, and no
\* output is shown with both the header and that message.
C29_CountReported ==
    shown.called =>
        /\ yarnOut.n > 0 =>
               /\ Console("header", 0) \in ShownLines
               /\ Console("found", yarnOut.n) \in ShownLines
               /\ Console("no-vulnerabilities", 0) \notin ShownLines
        /\ ~ /\ Console("header", 0) \in ShownLines
             /\ Console("no-vulnerabilities", 0) \in ShownLines

====
